---- MODULE Spec2Model ----
(***************************************************************************)
(* Model of src/TaskManagerCore.js: the 'Tasks' sheet (a header row plus   *)
(* one row per task), the script cache holding the serialized task list,   *)
(* and the operations of the script that read and write them.              *)
(*                                                                         *)
(* The script declares addTask twice (line 133 and line 435).  Function    *)
(* declarations of one script share one scope and the later declaration    *)
(* is the one a call binds to, so the operation addTask is the declaration *)
(* of line 435.  completeTask, deleteTask and getTasks name the sheet by   *)
(* SHEET_NAME, which stands for the one task sheet, 'Tasks'.               *)
(*                                                                         *)
(* A text is a sequence of pieces; a piece is either the whitespace        *)
(* character " " or a block of text that neither starts nor ends with      *)
(* whitespace.  A timestamp is a number of seconds.                        *)
(***************************************************************************)
EXTENDS Integers, Sequences, FiniteSets, TLC

VARIABLES sheetExists, rows, cache, now, lastOp, ops, deleted

\* sheetExists, rows: the 'Tasks' sheet and its task rows, top to bottom.
\* cache: the script cache entry 'all_tasks'.  now: the clock.
\* lastOp: the last call, its argument, what it returned, threw or alerted.
\* ops: the number of calls made.  deleted: the ids deleteTask has removed
\* a row of since the sheet was last rebuilt (a history variable).
vars == <<ops, now, sheetExists, rows, cache, deleted, lastOp>>

(***************************** bounds ***************************************)
\* Most task rows the sheet holds below the header.
MaxRows == 4
\* Longest task list handed to addTasksBatch.
MaxBatch == 4
\* CONFIG.BATCH_SIZE, the chunk size of addTasksBatch.  The script sets it to
\* 100; the model runs it scaled down, to a size that still holds the three
\* sample tasks in one chunk as 100 does, so that a list of MaxBatch tasks is
\* split into more than one chunk.
BATCH_SIZE == 3
\* The clock advances in steps of TickStep seconds (half a day) up to MaxTime.
TickStep == 43200
MaxTime == 43200
\* Most operations run in one behaviour.
MaxOps == 4

(***************************** configuration ********************************)
STATUS_OPTIONS == <<"Pending", "In Progress", "Completed", "Blocked">>
PRIORITY_OPTIONS == <<"Low", "Medium", "High", "Critical">>
CACHE_DURATION == 300

Range(s) == {s[i] : i \in 1..Len(s)}
Min(a, b) == IF a < b THEN a ELSE b

(***************************** values ***************************************)
\* The empty string '' in a date cell or a date argument.
EmptyString == [kind |-> "Empty", t |-> 0]
\* A Date object.
DateOf(t) == [kind |-> "Date", t |-> t]
\* A string that is not a date.
NotADate == [kind |-> "Str", t |-> 0]
\* The Invalid Date object.
InvalidDate == [kind |-> "Invalid", t |-> 0]

\* new Date(v): a copy of a Date, the Date an ISO string names, the epoch
\* for null, Invalid Date for '' and for an unparseable string.  It does not
\* throw.
NewDate(v) ==
  IF v.kind \in {"Date", "Iso"} THEN [kind |-> "Date", t |-> v.t]
  ELSE IF v.kind = "Null" THEN [kind |-> "Date", t |-> 0]
  ELSE InvalidDate

\* String.prototype.trim
RECURSIVE TrimStart(_)
TrimStart(s) ==
  IF s # <<>> /\ Head(s) = " " THEN TrimStart(Tail(s)) ELSE s

RECURSIVE TrimEnd(_)
TrimEnd(s) ==
  IF s # <<>> /\ s[Len(s)] = " " THEN TrimEnd(SubSeq(s, 1, Len(s) - 1)) ELSE s

Trim(s) == TrimEnd(TrimStart(s))

(***************************** the sheet ************************************)
\* sheet.getLastRow(): the header row plus the task rows.
GetLastRow(rs) == 1 + Len(rs)

\* DeleteRow one row too low: sheet.deleteRow(i + 2).
DeleteRowBelow(rs, i) == SubSeq(rs, 1, i) \o SubSeq(rs, i + 2, Len(rs))

\* sheet.deleteRow(i + 1) for the i-th task row: later rows shift up.
DeleteRow(rs, i) == SubSeq(rs, 1, i - 1) \o SubSeq(rs, i + 1, Len(rs))

\* FirstMatch without the break: the loop runs on and the last row whose id
\* is taskId is the one acted on.
FirstMatchNoBreak(rs, taskId) ==
  IF \E i \in 1..Len(rs) : rs[i].id = taskId
  THEN CHOOSE i \in 1..Len(rs) :
         /\ rs[i].id = taskId
         /\ \A j \in (i + 1)..Len(rs) : rs[j].id # taskId
  ELSE 0

\* The index of the first task row whose id is taskId, 0 when there is none:
\* for (i = 1; i < data.length; i++) if (data[i][0] == taskId) ... break
FirstMatch(rs, taskId) ==
  IF \E i \in 1..Len(rs) : rs[i].id = taskId
  THEN CHOOSE i \in 1..Len(rs) :
         /\ rs[i].id = taskId
         /\ \A j \in 1..(i - 1) : rs[j].id # taskId
  ELSE 0

(***************************** the cache ************************************)
NoCache == [present |-> FALSE, value |-> <<>>, expires |-> 0]

\* CacheService.getScriptCache().get('all_tasks'): null once expired.
CacheHit(c, t) == c.present /\ t < c.expires

\* JSON.parse(JSON.stringify(tasks)): a Date becomes its ISO string, the
\* Invalid Date becomes null, strings and numbers are kept.
JsonDate(v) ==
  IF v.kind = "Date" THEN [kind |-> "Iso", t |-> v.t]
  ELSE IF v.kind = "Invalid" THEN [kind |-> "Null", t |-> 0]
  ELSE v

JsonTask(r) ==
  [r EXCEPT !.createdDate = JsonDate(r.createdDate),
            !.dueDate = JsonDate(r.dueDate)]

JsonRoundTrip(tasks) == [i \in 1..Len(tasks) |-> JsonTask(tasks[i])]

\* CacheService.getScriptCache().put('all_tasks', JSON.stringify(tasks), ttl)
CachePut(tasks, t) ==
  [present |-> TRUE, value |-> JsonRoundTrip(tasks), expires |-> t + CACHE_DURATION]

\* clearTaskCache()
clearTaskCache == NoCache

(***************************** inputs ***************************************)
Props == {"name", "priority", "dueDate", "notes", "tags", "assignee"}

\* Calls of addTask(taskName, priority = 'Medium', dueDate = '', notes = ''),
\* with the defaults filled in for the arguments a call leaves out.
CallPadded ==
  [taskName |-> <<" ", "a", " ">>, priority |-> "High", dueDate |-> DateOf(100),
   notes |-> <<" ", "n">>]
CallBogus ==
  [taskName |-> <<"b">>, priority |-> "Bogus", dueDate |-> NotADate,
   notes |-> <<>>]
CallEmpty ==
  [taskName |-> <<>>, priority |-> "Medium", dueDate |-> EmptyString,
   notes |-> <<>>]
CallBlank ==
  [taskName |-> <<" ">>, priority |-> "Low", dueDate |-> EmptyString,
   notes |-> <<>>]

AddTaskInputs == {CallPadded, CallBogus, CallEmpty, CallBlank}

\* Task objects of a batch; has is the set of properties the object carries.
TaskFull ==
  [name |-> <<" ", "a", " ">>, priority |-> "Low", dueDate |-> DateOf(100),
   notes |-> <<" ", "n">>, tags |-> <<"t">>, assignee |-> <<"u", " ">>,
   has |-> Props]
TaskBlank ==
  [name |-> <<" ">>, priority |-> "Bogus", dueDate |-> NotADate,
   notes |-> <<>>, tags |-> <<>>, assignee |-> <<>>, has |-> Props]
TaskNoNotes ==
  [name |-> <<"c">>, priority |-> "Medium", dueDate |-> EmptyString,
   notes |-> <<>>, tags |-> <<>>, assignee |-> <<>>,
   has |-> {"name"}]

TaskInputs == {TaskFull, TaskBlank, TaskNoNotes}

\* The argument of addTasksBatch: a list of at most MaxBatch task objects
\* that the sheet has room for, the empty list, or a value that is not a list.
BatchInputs(room) ==
  {[isArray |-> TRUE, items |-> b] :
     b \in UNION {[1..n -> TaskInputs] : n \in 0..Min(MaxBatch, room)}}
  \cup {[isArray |-> FALSE, items |-> <<>>]}

IdInputs == 1..(MaxRows + 1)

\* addSampleData's three tasks, built when the clock reads t.
SampleTasks(t) ==
  << [name |-> <<"Implement advanced GitHub workflow">>, priority |-> "Critical",
      dueDate |-> DateOf(t + 3 * 24 * 60 * 60),
      notes |-> <<"Set up CI/CD pipeline with automated testing">>,
      tags |-> <<"devops, github, automation">>,
      assignee |-> <<"dev.team@company.com">>, has |-> Props],
     [name |-> <<"AI code review integration">>, priority |-> "High",
      dueDate |-> DateOf(t + 7 * 24 * 60 * 60),
      notes |-> <<"Integrate AI tools for automated code review">>,
      tags |-> <<"ai, code-review, automation">>,
      assignee |-> <<"ai.team@company.com">>, has |-> Props],
     [name |-> <<"Performance optimization analysis">>, priority |-> "Medium",
      dueDate |-> DateOf(t + 14 * 24 * 60 * 60),
      notes |-> <<"Analyze and optimize application performance">>,
      tags |-> <<"performance, optimization, monitoring">>,
      assignee |-> <<"performance.team@company.com">>, has |-> Props] >>

(***************************** building rows ********************************)
\* buildTaskData(task.name, task.priority, ...) on a sheet whose last row is
\* lastRow, at time t.  threw: trim() was called on a property the task
\* object does not carry (a TypeError).
buildTaskData(lastRow, t, task) ==
  LET newId == IF lastRow > 1 THEN lastRow ELSE 1
      priority == IF "priority" \in task.has
                     /\ task.priority \in Range(PRIORITY_OPTIONS)
                  THEN task.priority ELSE "Medium"
      parsedDueDate == IF "dueDate" \in task.has /\ task.dueDate # EmptyString
                       THEN NewDate(task.dueDate) ELSE EmptyString
  IN [threw |-> ~({"name", "notes", "tags", "assignee"} \subseteq task.has),
      row |-> [id |-> newId,
               task |-> Trim(task.name),
               status |-> "Pending",
               priority |-> priority,
               createdDate |-> DateOf(t),
               dueDate |-> parsedDueDate,
               notes |-> Trim(task.notes),
               tags |-> Trim(task.tags),
               assignee |-> Trim(task.assignee)]]

\* Slices with the end of each slice one short: slice(i, i + size - 1).
RECURSIVE SlicesOneShort(_, _, _)
SlicesOneShort(items, i, size) ==
  IF i < Len(items)
  THEN <<SubSeq(items, i + 1, Min(i + size - 1, Len(items)))>>
       \o SlicesOneShort(items, i + size, size)
  ELSE <<>>

\* The batches of addTasksBatch:
\* for (i = 0; i < n; i += size) batches.push(tasksArray.slice(i, i + size))
RECURSIVE Slices(_, _, _)
Slices(items, i, size) ==
  IF i < Len(items)
  THEN <<SubSeq(items, i + 1, Min(i + size, Len(items)))>>
       \o Slices(items, i + size, size)
  ELSE <<>>

\* ForEachBatch without the try/catch: the first chunk that fails ends the
\* loop and the chunks after it are not handled.
RECURSIVE ForEachBatchNoCatch(_, _, _, _, _, _, _)
ForEachBatchNoCatch(batches, k, hostFails, t, rs, total, log) ==
  IF k > Len(batches) THEN [rows |-> rs, totalAdded |-> total, chunks |-> log]
  ELSE
    LET batch == batches[k]
        built == [j \in 1..Len(batch) |-> buildTaskData(GetLastRow(rs), t, batch[j])]
        failed == (\E j \in 1..Len(batch) : built[j].threw) \/ hostFails[k]
        taskDataBatch == [j \in 1..Len(batch) |-> built[j].row]
    IN IF failed
       THEN [rows |-> rs, totalAdded |-> total,
             chunks |-> Append(log, [size |-> Len(batch), ok |-> FALSE])]
       ELSE ForEachBatchNoCatch(batches, k + 1, hostFails, t, rs \o taskDataBatch,
                                total + Len(taskDataBatch),
                                Append(log, [size |-> Len(batch), ok |-> TRUE]))

\* batches.forEach(...) from batch number k on: rs holds the task rows so
\* far, total is totalAdded, log the outcome of each chunk handled.  A chunk
\* whose build throws, or whose setValues the host refuses (hostFails[k]),
\* writes nothing; the error is caught and logged and the loop goes on.
RECURSIVE ForEachBatch(_, _, _, _, _, _, _)
ForEachBatch(batches, k, hostFails, t, rs, total, log) ==
  IF k > Len(batches) THEN [rows |-> rs, totalAdded |-> total, chunks |-> log]
  ELSE
    LET batch == batches[k]
        built == [j \in 1..Len(batch) |-> buildTaskData(GetLastRow(rs), t, batch[j])]
        failed == (\E j \in 1..Len(batch) : built[j].threw) \/ hostFails[k]
        taskDataBatch == [j \in 1..Len(batch) |-> built[j].row]
    IN IF failed
       THEN ForEachBatch(batches, k + 1, hostFails, t, rs, total,
                         Append(log, [size |-> Len(batch), ok |-> FALSE]))
       ELSE ForEachBatch(batches, k + 1, hostFails, t, rs \o taskDataBatch,
                         total + Len(taskDataBatch),
                         Append(log, [size |-> Len(batch), ok |-> TRUE]))

\* The body of addTasksBatch once its argument and the sheet are accepted.
RunBatch(items, hostFails, t, rs) ==
  ForEachBatch(Slices(items, 0, BATCH_SIZE), 1, hostFails, t, rs, 0, <<>>)

NumChunks(items) == Len(Slices(items, 0, BATCH_SIZE))

(***************************** reading **************************************)
\* The task object getTasks builds of a sheet row: columns A to G.
Task7(r) ==
  [id |-> r.id, task |-> r.task, status |-> r.status, priority |-> r.priority,
   createdDate |-> r.createdDate, dueDate |-> r.dueDate, notes |-> r.notes]

\* The loop of getTasks over the rows from row i on.
RECURSIVE FilterRows(_, _, _)
FilterRows(rs, i, statusFilter) ==
  IF i > Len(rs) THEN <<>>
  ELSE (IF statusFilter = "" \/ rs[i].status = statusFilter
        THEN <<Task7(rs[i])>> ELSE <<>>)
       \o FilterRows(rs, i + 1, statusFilter)

\* The filters of the menu and of the README.
FilterInputs == {"", "Pending", "Completed"}

\* A number, and the value NaN.
Number(n) == [nan |-> FALSE, n |-> n]
NaN == [nan |-> TRUE, n |-> 0]

\* counters[key]++ : a key the object does not hold yet reads undefined and
\* is set to NaN.
Increment(counters, key) ==
  IF key \in DOMAIN counters
  THEN [counters EXCEPT ![key] = IF @.nan THEN NaN ELSE Number(@.n + 1)]
  ELSE [k \in DOMAIN counters \cup {key} |-> IF k = key THEN NaN ELSE counters[k]]

\* a + b on numbers
Plus(a, b) == IF a.nan \/ b.nan THEN NaN ELSE Number(a.n + b.n)

\* A date cell or date string that is truthy: not '' and not null.
Truthy(v) == v.kind \notin {"Empty", "Null"}

\* new Date(v) < t
Before(v, t) == NewDate(v).kind = "Date" /\ NewDate(v).t < t

\* t - new Date(v), in seconds
Since(v, t) == IF NewDate(v).kind = "Date" THEN Number(t - NewDate(v).t) ELSE NaN

\* The seconds of a day.
DaySeconds == 24 * 60 * 60

\* toFixed(2) cutting the digits after the second instead of rounding.
ToFixed2Cut(num, den) == (100 * num) \div den

\* (num / den).toFixed(2) for num >= 0 and den > 0, in hundredths: the
\* nearest hundredth, the larger one when two are equally near.
ToFixed2(num, den) == (200 * num + den) \div (2 * den)

\* The outcome of toFixed(2), and the number 0 an empty list gives instead.
Fixed(h) == [fixed |-> TRUE, nan |-> FALSE, hundredths |-> h]
FixedNaN == [fixed |-> TRUE, nan |-> TRUE, hundredths |-> 0]
Zero == [fixed |-> FALSE, nan |-> FALSE, hundredths |-> 0]

\* tasks.forEach(...) of getTaskAnalytics from task i on, at time t.  acc
\* holds byStatus, byPriority, overdue, completedTasks and totalAge (in
\* seconds).  topAssignees and tagDistribution are left out.
RECURSIVE AnalyticsLoop(_, _, _, _)
AnalyticsLoop(tasks, i, t, acc) ==
  IF i > Len(tasks) THEN acc
  ELSE LET task == tasks[i]
       IN AnalyticsLoop(tasks, i + 1, t,
            [byStatus |-> Increment(acc.byStatus, task.status),
             byPriority |-> Increment(acc.byPriority, task.priority),
             overdue |-> IF Truthy(task.dueDate) /\ Before(task.dueDate, t)
                            /\ task.status # "Completed"
                         THEN acc.overdue + 1 ELSE acc.overdue,
             completedTasks |-> IF task.status = "Completed"
                                THEN acc.completedTasks + 1 ELSE acc.completedTasks,
             totalAge |-> Plus(acc.totalAge, Since(task.createdDate, t))])

\* The analytics of the list tasks at time t.
Analytics(tasks, t) ==
  LET acc == AnalyticsLoop(tasks, 1, t,
               [byStatus |-> [s \in Range(STATUS_OPTIONS) |-> Number(0)],
                byPriority |-> [p \in Range(PRIORITY_OPTIONS) |-> Number(0)],
                overdue |-> 0, completedTasks |-> 0, totalAge |-> Number(0)])
  IN [total |-> Len(tasks),
      byStatus |-> acc.byStatus,
      byPriority |-> acc.byPriority,
      overdue |-> acc.overdue,
      completionRate |-> IF Len(tasks) > 0
                         THEN Fixed(ToFixed2(acc.completedTasks * 100, Len(tasks)))
                         ELSE Zero,
      averageAge |-> IF Len(tasks) > 0
                     THEN IF acc.totalAge.nan THEN FixedNaN
                          ELSE Fixed(ToFixed2(acc.totalAge.n, DaySeconds * Len(tasks)))
                     ELSE Zero]

(***************************** operations ***********************************)
NotFound == "Task sheet not found. Please initialize the Task Manager first."
PleaseInit == "Please initialize the Task Manager first!"

Op(name, arg, ret, err, chunks) ==
  [op |-> name, arg |-> arg, ret |-> ret, err |-> err, alert |-> "",
   chunks |-> chunks]

Init ==
  /\ sheetExists = FALSE
  /\ rows = <<>>
  /\ cache = NoCache
  /\ now = 0
  /\ lastOp = Op("none", 0, 0, "", <<>>)
  /\ ops = 0
  /\ deleted = {}

\* One more call is made.
Counted == ops < MaxOps /\ ops' = ops + 1

\* initializeTaskManager without the sheet.clear() of setupSheetStructure:
\* the samples are appended below the rows the sheet holds.
initializeTaskManagerNoClear ==
  \E hostFails \in [1..NumChunks(SampleTasks(now)) -> BOOLEAN] :
    LET run == RunBatch(SampleTasks(now), hostFails, now, rows)
    IN /\ Counted
       /\ sheetExists' = TRUE
       /\ rows' = run.rows
       /\ cache' = clearTaskCache
       /\ lastOp' = [Op("initializeTaskManager", 0, run.totalAdded, "", run.chunks)
                       EXCEPT !.alert = "Advanced Task Manager initialized successfully!"]
       /\ deleted' = {}
       /\ UNCHANGED now

\* initializeTaskManager(): setupSheetStructure clears the sheet and writes
\* the header, addSampleData appends the samples through addTasksBatch.
initializeTaskManager ==
  \E hostFails \in [1..NumChunks(SampleTasks(now)) -> BOOLEAN] :
    LET run == RunBatch(SampleTasks(now), hostFails, now, <<>>)
    IN /\ Counted
       /\ sheetExists' = TRUE
       /\ rows' = run.rows
       /\ cache' = clearTaskCache
       /\ lastOp' = [Op("initializeTaskManager", 0, run.totalAdded, "", run.chunks)
                       EXCEPT !.alert = "Advanced Task Manager initialized successfully!"]
       /\ deleted' = {}
       /\ UNCHANGED now

\* addTask writing its row over the last row of the sheet instead of
\* appending it below.
addTaskOverLastRow(call) ==
  /\ Counted
  /\ Len(rows) < MaxRows
  /\ IF ~sheetExists
     THEN /\ lastOp' = [Op("addTask", call, 0, "", <<>>) EXCEPT !.alert = PleaseInit]
          /\ UNCHANGED <<sheetExists, rows, cache, now, deleted>>
     ELSE LET lastRow == GetLastRow(rows)
              newId == IF lastRow > 1 THEN lastRow ELSE 1
              newTask == [id |-> newId,
                          task |-> call.taskName,
                          status |-> "Pending",
                          priority |-> call.priority,
                          createdDate |-> DateOf(now),
                          dueDate |-> call.dueDate,
                          notes |-> call.notes,
                          tags |-> <<>>,
                          assignee |-> <<>>]
          IN /\ rows' = IF rows = <<>> THEN <<newTask>>
                        ELSE [rows EXCEPT ![Len(rows)] = newTask]
             /\ lastOp' = Op("addTask", call, newId, "", <<>>)
             /\ UNCHANGED <<sheetExists, cache, now, deleted>>

\* addTask(taskName, priority, dueDate, notes), the declaration of line 435.
addTask(call) ==
  /\ Counted
  /\ Len(rows) < MaxRows
  /\ IF ~sheetExists
     THEN /\ lastOp' = [Op("addTask", call, 0, "", <<>>) EXCEPT !.alert = PleaseInit]
          /\ UNCHANGED <<sheetExists, rows, cache, now, deleted>>
     ELSE LET lastRow == GetLastRow(rows)
              newId == IF lastRow > 1 THEN lastRow ELSE 1
              newTask == [id |-> newId,
                          task |-> call.taskName,
                          status |-> "Pending",
                          priority |-> call.priority,
                          createdDate |-> DateOf(now),
                          dueDate |-> call.dueDate,
                          notes |-> call.notes,
                          tags |-> <<>>,
                          assignee |-> <<>>]
          IN /\ rows' = Append(rows, newTask)
             /\ lastOp' = Op("addTask", call, newId, "", <<>>)
             /\ UNCHANGED <<sheetExists, cache, now, deleted>>

\* addTasksBatch testing only Array.isArray: the empty list is accepted.
addTasksBatchNoLengthTest(tasksArray) ==
  /\ Counted
  /\ Len(rows) + Len(tasksArray.items) <= MaxRows
  /\ IF ~tasksArray.isArray
     THEN /\ lastOp' = Op("addTasksBatch", tasksArray, 0,
                          "Invalid tasks array provided", <<>>)
          /\ UNCHANGED <<sheetExists, rows, cache, now, deleted>>
     ELSE IF ~sheetExists
     THEN /\ lastOp' = Op("addTasksBatch", tasksArray, 0, NotFound, <<>>)
          /\ UNCHANGED <<sheetExists, rows, cache, now, deleted>>
     ELSE \E hostFails \in [1..NumChunks(tasksArray.items) -> BOOLEAN] :
            LET run == RunBatch(tasksArray.items, hostFails, now, rows)
            IN /\ rows' = run.rows
               /\ cache' = clearTaskCache
               /\ lastOp' = Op("addTasksBatch", tasksArray, run.totalAdded, "",
                               run.chunks)
               /\ UNCHANGED <<sheetExists, now, deleted>>

\* addTasksBatch(tasksArray)
addTasksBatch(tasksArray) ==
  /\ Counted
  /\ Len(rows) + Len(tasksArray.items) <= MaxRows
  /\ IF ~tasksArray.isArray \/ Len(tasksArray.items) = 0
     THEN /\ lastOp' = Op("addTasksBatch", tasksArray, 0,
                          "Invalid tasks array provided", <<>>)
          /\ UNCHANGED <<sheetExists, rows, cache, now, deleted>>
     ELSE IF ~sheetExists
     THEN /\ lastOp' = Op("addTasksBatch", tasksArray, 0, NotFound, <<>>)
          /\ UNCHANGED <<sheetExists, rows, cache, now, deleted>>
     ELSE \E hostFails \in [1..NumChunks(tasksArray.items) -> BOOLEAN] :
            LET run == RunBatch(tasksArray.items, hostFails, now, rows)
            IN /\ rows' = run.rows
               /\ cache' = clearTaskCache
               /\ lastOp' = Op("addTasksBatch", tasksArray, run.totalAdded, "",
                               run.chunks)
               /\ UNCHANGED <<sheetExists, now, deleted>>

\* completeTask writing to sheet row i instead of i + 1, the row above the
\* match (the header row for the first task row).
completeTaskRowAbove(taskId) ==
  /\ Counted
  /\ IF ~sheetExists
     THEN /\ lastOp' = [Op("completeTask", taskId, 0, "", <<>>) EXCEPT !.alert = PleaseInit]
          /\ UNCHANGED <<sheetExists, rows, cache, now, deleted>>
     ELSE LET i == FirstMatch(rows, taskId)
          IN /\ rows' = IF i <= 1 THEN rows
                        ELSE [rows EXCEPT ![i - 1].status = "Completed"]
             /\ lastOp' = Op("completeTask", taskId, 0, "", <<>>)
             /\ UNCHANGED <<sheetExists, cache, now, deleted>>

\* completeTask(taskId)
completeTask(taskId) ==
  /\ Counted
  /\ IF ~sheetExists
     THEN /\ lastOp' = [Op("completeTask", taskId, 0, "", <<>>) EXCEPT !.alert = PleaseInit]
          /\ UNCHANGED <<sheetExists, rows, cache, now, deleted>>
     ELSE LET i == FirstMatch(rows, taskId)
          IN /\ rows' = IF i = 0 THEN rows
                        ELSE [rows EXCEPT ![i].status = "Completed"]
             /\ lastOp' = Op("completeTask", taskId, 0, "", <<>>)
             /\ UNCHANGED <<sheetExists, cache, now, deleted>>

\* deleteTask(taskId)
deleteTask(taskId) ==
  /\ Counted
  /\ IF ~sheetExists
     THEN /\ lastOp' = [Op("deleteTask", taskId, 0, "", <<>>) EXCEPT !.alert = PleaseInit]
          /\ UNCHANGED <<sheetExists, rows, cache, now, deleted>>
     ELSE LET i == FirstMatch(rows, taskId)
          IN /\ rows' = IF i = 0 THEN rows ELSE DeleteRow(rows, i)
             /\ deleted' = IF i = 0 THEN deleted ELSE deleted \cup {taskId}
             /\ lastOp' = Op("deleteTask", taskId, 0, "", <<>>)
             /\ UNCHANGED <<sheetExists, cache, now>>

\* getAllTasks storing the list it read whatever useCache is.
getAllTasksAlwaysPut(useCache) ==
  /\ Counted
  /\ IF useCache /\ CacheHit(cache, now)
     THEN /\ lastOp' = Op("getAllTasks", useCache, cache.value, "", <<>>)
          /\ UNCHANGED <<sheetExists, rows, cache, now, deleted>>
     ELSE IF ~sheetExists
     THEN /\ lastOp' = Op("getAllTasks", useCache, <<>>, NotFound, <<>>)
          /\ UNCHANGED <<sheetExists, rows, cache, now, deleted>>
     ELSE /\ cache' = CachePut(rows, now)
          /\ lastOp' = Op("getAllTasks", useCache, rows, "", <<>>)
          /\ UNCHANGED <<sheetExists, rows, now, deleted>>

\* getAllTasks(useCache)
getAllTasks(useCache) ==
  /\ Counted
  /\ IF useCache /\ CacheHit(cache, now)
     THEN /\ lastOp' = Op("getAllTasks", useCache, cache.value, "", <<>>)
          /\ UNCHANGED <<sheetExists, rows, cache, now, deleted>>
     ELSE IF ~sheetExists
     THEN /\ lastOp' = Op("getAllTasks", useCache, <<>>, NotFound, <<>>)
          /\ UNCHANGED <<sheetExists, rows, cache, now, deleted>>
     ELSE /\ cache' = IF useCache THEN CachePut(rows, now) ELSE cache
          /\ lastOp' = Op("getAllTasks", useCache, rows, "", <<>>)
          /\ UNCHANGED <<sheetExists, rows, now, deleted>>

\* getTasks filtering the list getAllTasks() would return: the cached list
\* while the cache entry is live.
getTasksCached(statusFilter) ==
  /\ Counted
  /\ lastOp' = Op("getTasks", statusFilter,
                  IF CacheHit(cache, now) THEN FilterRows(cache.value, 1, statusFilter)
                  ELSE IF sheetExists THEN FilterRows(rows, 1, statusFilter)
                  ELSE <<>>,
                  "", <<>>)
  /\ UNCHANGED <<sheetExists, rows, cache, now, deleted>>

\* getTasks(statusFilter)
getTasks(statusFilter) ==
  /\ Counted
  /\ lastOp' = Op("getTasks", statusFilter,
                  IF sheetExists THEN FilterRows(rows, 1, statusFilter) ELSE <<>>,
                  "", <<>>)
  /\ UNCHANGED <<sheetExists, rows, cache, now, deleted>>

\* getTaskAnalytics(), which reads the list through getAllTasks().
getTaskAnalytics ==
  /\ Counted
  /\ IF CacheHit(cache, now)
     THEN /\ lastOp' = Op("getTaskAnalytics", cache.value,
                          Analytics(cache.value, now), "", <<>>)
          /\ UNCHANGED <<sheetExists, rows, cache, now, deleted>>
     ELSE IF ~sheetExists
     THEN /\ lastOp' = Op("getTaskAnalytics", <<>>, 0, NotFound, <<>>)
          /\ UNCHANGED <<sheetExists, rows, cache, now, deleted>>
     ELSE /\ cache' = CachePut(rows, now)
          /\ lastOp' = Op("getTaskAnalytics", rows, Analytics(rows, now), "", <<>>)
          /\ UNCHANGED <<sheetExists, rows, now, deleted>>

\* The menu item 'Clear Cache' runs clearTaskCache.
ClearCache ==
  /\ Counted
  /\ cache' = clearTaskCache
  /\ lastOp' = Op("clearTaskCache", 0, 0, "", <<>>)
  /\ UNCHANGED <<sheetExists, rows, now, deleted>>

\* Time passes between two script executions.
Tick ==
  /\ now + TickStep <= MaxTime
  /\ now' = now + TickStep
  /\ UNCHANGED <<sheetExists, rows, cache, lastOp, ops, deleted>>

\* The user picks status from the dropdown of the Status cell of task row i:
\* an edit of the sheet that runs no function of the script.
SheetEdit(i, status) ==
  /\ sheetExists
  /\ i \in 1..Len(rows)
  /\ rows[i].status # status
  /\ rows' = [rows EXCEPT ![i].status = status]
  /\ UNCHANGED <<sheetExists, cache, now, lastOp, ops, deleted>>

\* The statuses picked by hand.
EditInputs == {"In Progress", "Blocked"}

Next ==
  \/ initializeTaskManager
  \/ \E call \in AddTaskInputs : addTask(call)
  \/ \E tasksArray \in BatchInputs(MaxRows - Len(rows)) : addTasksBatch(tasksArray)
  \/ \E taskId \in IdInputs : completeTask(taskId)
  \/ \E taskId \in IdInputs : deleteTask(taskId)
  \/ \E useCache \in BOOLEAN : getAllTasks(useCache)
  \/ \E statusFilter \in FilterInputs : getTasks(statusFilter)
  \/ getTaskAnalytics
  \/ ClearCache
  \/ Tick

Spec == Init /\ [][Next]_vars

\* The script's operations together with edits made to the sheet by hand.
NextEdit ==
  \/ Next
  \/ \E status \in EditInputs : SheetEdit(1, status)

SpecEdit == Init /\ [][NextEdit]_vars

(***************************** properties ***********************************)
Mutations == {"addTask", "addTasksBatch", "completeTask", "deleteTask"}

\* The step is a call of operation name that ran against the existing sheet.
CallOf(name) == ops' = ops + 1 /\ lastOp'.op = name /\ sheetExists

\* The last call was operation name and it returned (no error, no alert).
Returned(name) == lastOp.op = name /\ lastOp.err = "" /\ lastOp.alert = ""

\* rs2 is rs with exactly one row removed, the others kept in order.
OneRowRemoved(rs, rs2) ==
  /\ Len(rs2) = Len(rs) - 1
  /\ \E i \in 1..Len(rs) :
       /\ \A j \in 1..(i - 1) : rs2[j] = rs[j]
       /\ \A j \in i..Len(rs2) : rs2[j] = rs[j + 1]

\* rs2 is rs followed by further rows.
Extends(rs, rs2) ==
  /\ Len(rs2) >= Len(rs)
  /\ \A j \in 1..Len(rs) : rs2[j] = rs[j]

\* C1: no two stored task rows carry the same id.
C1_UniqueIds ==
  \A i, j \in 1..Len(rows) : i # j => rows[i].id # rows[j].id

\* C2: an id that deleteTask has removed is never given to a new task by
\* addTask or addTasksBatch, and deleteTask leaves the ids of the surviving
\* rows as they were.
C2_NoIdReuse ==
  [][ /\ (CallOf("addTask") \/ CallOf("addTasksBatch"))
         => \A i \in (Len(rows) + 1)..Len(rows') : rows'[i].id \notin deleted
      /\ CallOf("deleteTask")
         => (rows' = rows \/ OneRowRemoved(rows, rows')) ]_vars

\* C3: when a mutation has returned, the cache holds no task list.
C3_MutationClearsCache ==
  (\E name \in Mutations : Returned(name)) => ~CacheHit(cache, now)

\* C4: the list read right after deleteTask(id) holds no task with that id,
\* and completeTask(id) right after deleteTask(id) raises nothing and leaves
\* the rows as they are.
C4_DeleteThenList ==
  [][ Returned("deleteTask") =>
        /\ (CallOf("getAllTasks") /\ lastOp'.err = "")
           => \A k \in 1..Len(lastOp'.ret) : lastOp'.ret[k].id # lastOp.arg
        /\ (CallOf("completeTask") /\ lastOp'.arg = lastOp.arg)
           => (lastOp'.err = "" /\ rows' = rows) ]_vars

\* C5: addTask with an empty or whitespace-only title fails with an error
\* and leaves the rows and the cache as they were.
C5_BlankTitleRejected ==
  [][ (CallOf("addTask") /\ Trim(lastOp'.arg.taskName) = <<>>)
        => (lastOp'.err # "" /\ rows' = rows /\ cache' = cache) ]_vars

\* C6: every stored task row has a non-empty title.
C6_TitlesNonEmpty ==
  \A i \in 1..Len(rows) : rows[i].task # <<>>

\* The priority the specification stores for a supplied priority p.
Fallback(p) == IF p \in Range(PRIORITY_OPTIONS) THEN p ELSE "Medium"

\* C7: addTask with a non-blank title returns an id that is at least the row
\* count at call time, and the list read right after it holds a task with that
\* id and the normalized inputs.
C7_AddThenList ==
  [][ /\ (CallOf("addTask") /\ Trim(lastOp'.arg.taskName) # <<>>)
         => (lastOp'.err = "" /\ lastOp'.ret >= Len(rows))
      /\ (/\ Returned("addTask") /\ Trim(lastOp.arg.taskName) # <<>>
          /\ CallOf("getAllTasks") /\ lastOp'.err = "")
         => \E k \in 1..Len(lastOp'.ret) :
              LET task == lastOp'.ret[k]
              IN /\ task.id = lastOp.ret
                 /\ task.task = Trim(lastOp.arg.taskName)
                 /\ task.status = "Pending"
                 /\ task.priority = Fallback(lastOp.arg.priority)
                 /\ task.notes = Trim(lastOp.arg.notes)
                 /\ task.tags = <<>>
                 /\ task.assignee = <<>> ]_vars

\* C8: a task is created Pending; a stored task's status changes only in a
\* completeTask call on its id and only to Completed; so a Completed task
\* stays Completed until its row is deleted.
C8_StatusTransitions ==
  [][ IF ops' = ops THEN rows' = rows
      ELSE IF lastOp'.op \in {"addTask", "addTasksBatch"}
      THEN /\ Extends(rows, rows')
           /\ \A i \in (Len(rows) + 1)..Len(rows') : rows'[i].status = "Pending"
      ELSE IF lastOp'.op = "initializeTaskManager"
      THEN \A i \in 1..Len(rows') : rows'[i].status = "Pending"
      ELSE IF lastOp'.op = "completeTask"
      THEN /\ Len(rows') = Len(rows)
           /\ \A i \in 1..Len(rows) :
                rows'[i].status # rows[i].status
                  => (rows[i].id = lastOp'.arg /\ rows'[i].status = "Completed")
      ELSE IF lastOp'.op = "deleteTask"
      THEN rows' = rows \/ OneRowRemoved(rows, rows')
      ELSE rows' = rows ]_vars

\* A Pending task was completed by completeTask on its id.
C8_Witness ==
  /\ Returned("completeTask")
  /\ \E i \in 1..Len(rows) : rows[i].id = lastOp.arg /\ rows[i].status = "Completed"
  /\ \E i \in 1..Len(rows) : rows[i].id # lastOp.arg /\ rows[i].status = "Pending"

\* C9: every stored task has a priority of PRIORITY_OPTIONS: a supplied
\* priority of that set is stored as supplied and any other as Medium; no
\* later operation changes the priority of a stored row.
C9_PriorityStored ==
  [][ /\ CallOf("addTask") /\ lastOp'.err = ""
         => /\ Len(rows') = Len(rows) + 1
            /\ rows'[Len(rows')].priority = Fallback(lastOp'.arg.priority)
      /\ \A i \in 1..Len(rows') : rows'[i].priority \in Range(PRIORITY_OPTIONS) ]_vars

\* ceil(n / b)
CeilDiv(n, b) == (n + b - 1) \div b

\* The chunk sizes the specification gives for n tasks and batch size b.
ExpectedSizes(n, b) ==
  [k \in 1..CeilDiv(n, b) |-> IF k < CeilDiv(n, b) THEN b ELSE n - b * (CeilDiv(n, b) - 1)]

\* 250 tasks cut with the script's batch size of 100.
Batch250 == Slices([i \in 1..250 |-> i], 0, 100)

\* C10: addTasksBatch on N >= 1 tasks handles ceil(N/B) chunks in input
\* order, of size B except the last; when no chunk fails it returns N and the
\* sheet has grown by the N rows in input order.  250 tasks at batch size
\* 100 give chunks of 100, 100 and 50.
C10_Chunking ==
  [][ (CallOf("addTasksBatch") /\ lastOp'.err = "") =>
        LET items == lastOp'.arg.items
            n == Len(items)
            chunks == lastOp'.chunks
        IN /\ [k \in 1..Len(chunks) |-> chunks[k].size] = ExpectedSizes(n, BATCH_SIZE)
           /\ [k \in 1..Len(Batch250) |-> Len(Batch250[k])] = <<100, 100, 50>>
           /\ (\A k \in 1..Len(chunks) : chunks[k].ok)
              => /\ lastOp'.ret = n
                 /\ Len(rows') = Len(rows) + n
                 /\ Extends(rows, rows')
                 /\ \A j \in 1..n : rows'[Len(rows) + j].task = Trim(items[j].name) ]_vars

\* A list longer than the batch size was written in several chunks, none
\* of which failed.
C10_Witness ==
  /\ Returned("addTasksBatch")
  /\ Len(lastOp.chunks) >= 2
  /\ \A k \in 1..Len(lastOp.chunks) : lastOp.chunks[k].ok
  /\ lastOp.ret = Len(lastOp.arg.items)
  /\ lastOp.ret > BATCH_SIZE
  /\ Len(rows) >= lastOp.ret

\* The sum of the sizes of the chunks of log that were written.
RECURSIVE SumOk(_)
SumOk(log) ==
  IF log = <<>> THEN 0
  ELSE (IF Head(log).ok THEN Head(log).size ELSE 0) + SumOk(Tail(log))

\* C11: when a chunk of addTasksBatch fails, every chunk of the list is still
\* handled, the call raises nothing, it returns the number of rows appended,
\* which is the sum of the sizes of the chunks written, and the cache holds
\* nothing when it returns.
C11_PartialFailure ==
  [][ (CallOf("addTasksBatch")
       /\ \E k \in 1..Len(lastOp'.chunks) : ~lastOp'.chunks[k].ok) =>
        LET chunks == lastOp'.chunks
        IN /\ Len(chunks) = NumChunks(lastOp'.arg.items)
           /\ [k \in 1..Len(chunks) |-> chunks[k].size]
                = ExpectedSizes(Len(lastOp'.arg.items), BATCH_SIZE)
           /\ lastOp'.err = ""
           /\ lastOp'.ret = SumOk(chunks)
           /\ Len(rows') = Len(rows) + lastOp'.ret
           /\ Extends(rows, rows')
           /\ ~CacheHit(cache', now') ]_vars

\* A list of two chunks whose first chunk failed and whose second chunk was
\* written.
C11_Witness ==
  /\ Returned("addTasksBatch")
  /\ Len(lastOp.chunks) = 2
  /\ ~lastOp.chunks[1].ok
  /\ lastOp.chunks[2].ok
  /\ lastOp.ret = lastOp.chunks[2].size
  /\ lastOp.ret < Len(lastOp.arg.items)
  /\ Len(rows) >= lastOp.ret

\* C12: addTasksBatch on the empty list or on a value that is not a list
\* throws 'Invalid tasks array provided' and leaves the sheet, its rows and
\* the cache as they were.
C12_InvalidBatchRejected ==
  [][ (/\ ops' = ops + 1
       /\ lastOp'.op = "addTasksBatch"
       /\ (~lastOp'.arg.isArray \/ Len(lastOp'.arg.items) = 0))
        => /\ lastOp'.err = "Invalid tasks array provided"
           /\ rows' = rows
           /\ cache' = cache
           /\ sheetExists' = sheetExists ]_vars

\* The empty list was refused on a sheet that holds rows, with a live cache.
C12_Witness ==
  /\ lastOp.op = "addTasksBatch"
  /\ lastOp.arg.isArray
  /\ Len(lastOp.arg.items) = 0
  /\ lastOp.err = "Invalid tasks array provided"
  /\ sheetExists
  /\ rows # <<>>
  /\ CacheHit(cache, now)

\* C13: a getAllTasks(true) call that follows a getAllTasks(true) call while
\* the cache entry is live, the sheet having been edited by hand in between,
\* returns what the first call returned; a getAllTasks(true) call made when
\* the entry has expired or has been cleared returns the rows of the sheet,
\* the edit included.
C13_StaleThenFresh ==
  [][ (CallOf("getAllTasks") /\ lastOp'.arg = TRUE) =>
        /\ (/\ Returned("getAllTasks")
            /\ lastOp.arg = TRUE
            /\ CacheHit(cache, now)
            /\ JsonRoundTrip(rows) # cache.value)
           => lastOp'.ret = lastOp.ret
        /\ ~CacheHit(cache, now) => (lastOp'.err = "" /\ lastOp'.ret = rows) ]_vars

\* The cache entry holds the serialized list tasks, stored at time t.
Holds(c, tasks, t) ==
  /\ c.present
  /\ c.value = JsonRoundTrip(tasks)
  /\ c.expires = t + CACHE_DURATION

\* C14, as claimed: getAllTasks(useCache) returns the cached list and leaves
\* the cache alone when useCache is true and the entry is live; in every
\* other case it returns the rows of the sheet and the cache then holds that
\* list for CACHE_DURATION seconds.
C14_ReadThroughAlways ==
  [][ CallOf("getAllTasks") =>
        IF lastOp'.arg /\ CacheHit(cache, now)
        THEN lastOp'.ret = cache.value /\ cache' = cache
        ELSE /\ lastOp'.err = ""
             /\ lastOp'.ret = rows
             /\ Holds(cache', lastOp'.ret, now) ]_vars

\* C14, amended: as above, but the cache is stored to only when useCache is
\* true; getAllTasks(false) returns the rows of the sheet and leaves the
\* cache entry as it was.
C14_ReadThrough ==
  [][ CallOf("getAllTasks") =>
        IF lastOp'.arg /\ CacheHit(cache, now)
        THEN lastOp'.ret = cache.value /\ cache' = cache
        ELSE /\ lastOp'.err = ""
             /\ lastOp'.ret = rows
             /\ IF lastOp'.arg
                THEN Holds(cache', lastOp'.ret, now)
                ELSE cache' = cache ]_vars

\* getAllTasks(false) returned the rows of the sheet while the cache kept a
\* live entry that differs from them.
C14_Witness ==
  /\ Returned("getAllTasks")
  /\ lastOp.arg = FALSE
  /\ lastOp.ret = rows
  /\ CacheHit(cache, now)
  /\ cache.value # JsonRoundTrip(rows)

\* The operations on tasks.
TaskOps ==
  {"addTask", "addTasksBatch", "completeTask", "deleteTask", "getAllTasks", "getTasks"}

\* C15: while the sheet does not exist, every operation on tasks (given an
\* argument it accepts) tells its caller that the task manager is not
\* initialized, by the error of getTaskSheet or by the alert 'Please
\* initialize the Task Manager first!', and leaves the sheet absent and the
\* cache as it was.
C15_NotInitialized ==
  [][ (/\ ops' = ops + 1
       /\ ~sheetExists
       /\ lastOp'.op \in TaskOps
       /\ lastOp'.op = "addTasksBatch"
          => (lastOp'.arg.isArray /\ Len(lastOp'.arg.items) > 0))
        => /\ lastOp'.err = NotFound \/ lastOp'.alert = PleaseInit
           /\ ~sheetExists'
           /\ cache' = cache ]_vars

\* The id, title, status and priority of each row of rs.
Core(rs) ==
  [i \in 1..Len(rs) |->
     [id |-> rs[i].id, task |-> rs[i].task, status |-> rs[i].status,
      priority |-> rs[i].priority]]

\* What the sample data fixes of the rows of a newly provisioned sheet.
SampleCore ==
  << [id |-> 1, task |-> <<"Implement advanced GitHub workflow">>,
      status |-> "Pending", priority |-> "Critical"],
     [id |-> 1, task |-> <<"AI code review integration">>,
      status |-> "Pending", priority |-> "High"],
     [id |-> 1, task |-> <<"Performance optimization analysis">>,
      status |-> "Pending", priority |-> "Medium"] >>

\* C16: whatever the sheet held, initializeTaskManager leaves a sheet that
\* holds none of the previous rows; when the write of the samples succeeded
\* the ids, titles, statuses and priorities of its rows are those the sample
\* data fixes, so that running it again right away gives the same rows.
C16_ProvisionResets ==
  [][ (ops' = ops + 1 /\ lastOp'.op = "initializeTaskManager") =>
        /\ sheetExists'
        /\ Len(rows') = lastOp'.ret
        /\ lastOp'.ret = Len(SampleCore) => Core(rows') = SampleCore
        /\ lastOp'.ret # Len(SampleCore) => rows' = <<>>
        /\ (lastOp.op = "initializeTaskManager" /\ lastOp.ret = lastOp'.ret)
           => Core(rows') = Core(rows) ]_vars

\* initializeTaskManager ran on a sheet that earlier calls had written to
\* and left it with the three sample rows.
C16_Witness ==
  /\ lastOp.op = "initializeTaskManager"
  /\ lastOp.ret = Len(SampleCore)
  /\ ops = MaxOps
  /\ Core(rows) = SampleCore

\* The tasks of the list tasks whose status is statusFilter, all of them
\* for the empty filter, in the order of the list.
Matching(tasks, statusFilter) ==
  SelectSeq(tasks, LAMBDA task : statusFilter = "" \/ task.status = statusFilter)

\* What identifies the tasks of a list whatever the form of their dates.
Shown(tasks) ==
  [i \in 1..Len(tasks) |->
     [id |-> tasks[i].id, task |-> tasks[i].task, status |-> tasks[i].status,
      priority |-> tasks[i].priority, notes |-> tasks[i].notes]]

C18_InvalidDueDateAbsent ==
  [][ /\ (CallOf("addTask") /\ lastOp'.arg.dueDate = NotADate)
         => /\ lastOp'.err = ""
            /\ Len(rows') = Len(rows) + 1
            /\ rows'[Len(rows')].dueDate = EmptyString
      /\ (CallOf("addTasksBatch") /\ lastOp'.err = ""
          /\ \A k \in 1..Len(lastOp'.chunks) : lastOp'.chunks[k].ok)
         => /\ Len(rows') = Len(rows) + Len(lastOp'.arg.items)
            /\ \A j \in 1..Len(lastOp'.arg.items) :
                 lastOp'.arg.items[j].dueDate = NotADate
                   => rows'[Len(rows) + j].dueDate = EmptyString ]_vars

\* The number of tasks of the list with status Completed.
CompletedIn(tasks) ==
  Cardinality({i \in 1..Len(tasks) : tasks[i].status = "Completed"})

\* The sum over the tasks of the list of the seconds from createdDate to t.
RECURSIVE AgeSum(_, _)
AgeSum(tasks, t) ==
  IF tasks = <<>> THEN 0
  ELSE (t - NewDate(Head(tasks).createdDate).t) + AgeSum(Tail(tasks), t)

\* h hundredths is num / den to two decimal places.
TwoDecimals(h, num, den) ==
  /\ 2 * h * den - den <= 200 * num
  /\ 200 * num < 2 * h * den + den

\* C19: for the empty list completionRate and averageAge are 0; for a list
\* of n > 0 tasks completionRate is 100 * completed / n to two decimal
\* places and averageAge is the mean over the tasks of now - createdDate, in
\* days, to two decimal places.
C19_RateAndAge ==
  [][ (CallOf("getTaskAnalytics") /\ lastOp'.err = "") =>
        LET tasks == lastOp'.arg
            n == Len(tasks)
            a == lastOp'.ret
        IN IF n = 0
           THEN /\ ~a.completionRate.nan /\ a.completionRate.hundredths = 0
                /\ ~a.averageAge.nan /\ a.averageAge.hundredths = 0
           ELSE /\ ~a.completionRate.nan
                /\ TwoDecimals(a.completionRate.hundredths, 100 * CompletedIn(tasks), n)
                /\ ~a.averageAge.nan
                /\ TwoDecimals(a.averageAge.hundredths, AgeSum(tasks, now),
                               DaySeconds * n) ]_vars

\* The analytics of four tasks, one of them Completed and all of them half a
\* day old: a completion rate of 25.00 and an average age of 0.50 days.
C19_Witness ==
  /\ Returned("getTaskAnalytics")
  /\ Len(lastOp.arg) = 4
  /\ CompletedIn(lastOp.arg) = 1
  /\ lastOp.ret.completionRate = Fixed(2500)
  /\ lastOp.ret.averageAge = Fixed(50)

\* The number of tasks of the list whose field is value.
CountOf(tasks, field, value) ==
  Cardinality({i \in 1..Len(tasks) : tasks[i][field] = value})

\* The sum of the four counts of counters under the keys of options.
SumOver(counters, options) ==
  counters[options[1]].n + counters[options[2]].n
    + counters[options[3]].n + counters[options[4]].n

IsFirstWithId(rs, i, taskId) ==
  /\ i \in 1..Len(rs)
  /\ rs[i].id = taskId
  /\ \A j \in 1..(i - 1) : rs[j].id # taskId

\* C21: completeTask(id) raises nothing; it sets the status of the first row
\* whose id is id to Completed and changes no other cell of that row, no
\* other row, and neither the order nor the number of the rows; when no row
\* has the id the rows are unchanged.
C21_CompleteFrame ==
  [][ CallOf("completeTask") =>
        /\ lastOp'.err = ""
        /\ sheetExists'
        /\ Len(rows') = Len(rows)
        /\ \A i \in 1..Len(rows) :
             rows'[i] = IF IsFirstWithId(rows, i, lastOp'.arg)
                        THEN [rows[i] EXCEPT !.status = "Completed"]
                        ELSE rows[i] ]_vars

\* completeTask(id) ran on a sheet where several rows carry the id: the
\* first of them is Completed and a later one is still Pending.
C21_Witness ==
  /\ Returned("completeTask")
  /\ \E i, j \in 1..Len(rows) :
       /\ IsFirstWithId(rows, i, lastOp.arg)
       /\ rows[i].status = "Completed"
       /\ j > i
       /\ rows[j].id = lastOp.arg
       /\ rows[j].status = "Pending"

\* C22: deleteTask(id) raises nothing; it removes the first row whose id is
\* id and leaves the other rows as they were and in their order; when no
\* row has the id the rows are unchanged.  A read of the sheet returns its
\* rows top to bottom.
C22_DeleteFrame ==
  [][ /\ CallOf("deleteTask") =>
           /\ lastOp'.err = ""
           /\ sheetExists'
           /\ IF \E i \in 1..Len(rows) : rows[i].id = lastOp'.arg
              THEN \E i \in 1..Len(rows) :
                     /\ IsFirstWithId(rows, i, lastOp'.arg)
                     /\ Len(rows') = Len(rows) - 1
                     /\ \A j \in 1..(i - 1) : rows'[j] = rows[j]
                     /\ \A j \in i..Len(rows') : rows'[j] = rows[j + 1]
              ELSE rows' = rows
      /\ (CallOf("getAllTasks") /\ ~lastOp'.arg) =>
           (lastOp'.err = "" /\ lastOp'.ret = rows /\ rows' = rows) ]_vars

\* deleteTask(id) removed a row; another row with the same id is still
\* there, next to a row with a different id.
C22_Witness ==
  /\ Returned("deleteTask")
  /\ lastOp.arg \in deleted
  /\ Len(rows) >= 2
  /\ \E i \in 1..Len(rows) : rows[i].id = lastOp.arg
  /\ \E i \in 1..Len(rows) : rows[i].id # lastOp.arg

\* C23: addTask and addTasksBatch only append: the rows the sheet held
\* before the call are still there, unchanged and in place, and the new rows
\* come directly below them; an addTask that returns adds exactly one row and
\* addTasksBatch adds as many rows as it returns.
C23_AppendOnly ==
  [][ /\ CallOf("addTask") =>
           /\ Extends(rows, rows')
           /\ Len(rows') = Len(rows) + 1
           /\ rows'[Len(rows')].id = lastOp'.ret
      /\ CallOf("addTasksBatch") =>
           /\ Extends(rows, rows')
           /\ Len(rows') = Len(rows) + (IF lastOp'.err = "" THEN lastOp'.ret ELSE 0) ]_vars

\* addTask appended a fourth row below the three sample rows.
C23_Witness ==
  /\ Returned("addTask")
  /\ Len(rows) = Len(SampleCore) + 1
  /\ Core(SubSeq(rows, 1, Len(SampleCore))) = SampleCore
  /\ rows[Len(rows)].id = lastOp.ret
  /\ rows[Len(rows)].task = lastOp.arg.taskName

====
